---------------------------- MODULE Spec2Model ----------------------------
(***************************************************************************)
(* Hodgkin-Huxley neuron simulation: the numerical core (services/hhSolver)*)
(* and the simulation loop of App.tsx (state, parameters, pulse countdown, *)
(* history buffer and the view published to the visualization).            *)
(*                                                                         *)
(* Number representations                                                  *)
(*  - V, the Parameters fields, the currents and the rate constants are    *)
(*    JavaScript numbers that go through products, quotients and Math.exp. *)
(*    They are modelled in binary fixed point with 15 fraction bits: the   *)
(*    integer x stands for x / 2^15.                                       *)
(*  - The gating variables m, h, n (and their powers) lie in [0, 1] and    *)
(*    enter the currents in the third and fourth power; they are modelled  *)
(*    in fixed point with 30 fraction bits: the integer g stands for       *)
(*    g / 2^30.                                                            *)
(*  - t and the pulse countdown only ever undergo "+ dt" and "- dt".  They *)
(*    are modelled as exact IEEE-754 binary64 values (round to nearest,    *)
(*    ties to even), held as integer multiples of 2^-57 in three limbs.    *)
(* Every intermediate result stays within 32 bits. Fixed-point results are *)
(* rounded down (floor).  NaN and the Infinities are values of their own.  *)
(***************************************************************************)
EXTENDS Integers, Sequences, FiniteSets, TLC

(***************************************************************************)
(* Fixed-point arithmetic                                                  *)
(***************************************************************************)
Half == 2^15          \* the unit of the 15-bit format, and the limb of products
FixOne == Half        \* 1.0 in the 15-bit format
GateOne == 2^30       \* 1.0 in the 30-bit format

Abs(x) == IF x < 0 THEN -x ELSE x

\* an integer literal of the source in the 15-bit format
Fix(i) == i * FixOne

\* a decimal literal num/den (den > 0) of the source in the 15-bit format
Dec(num, den) == (num * FixOne) \div den

(***************************************************************************)
(* The non-finite values of a JavaScript number.  They stand outside the   *)
(* range of the finite fixed-point values; every operator below follows    *)
(* IEEE-754 on them: NaN is contagious, Infinity - Infinity, 0 * Infinity, *)
(* 0 / 0 and Infinity / Infinity are NaN, and x / 0 is an Infinity of the  *)
(* sign of x.  (The sign of a zero is not modelled: every zero is +0.)     *)
(***************************************************************************)
PosInf == 2147483646
NegInf == -PosInf
NaN == PosInf + 1

Finite(x) == x > NegInf /\ x < PosInf

\* -x
Neg(x) == IF x = NaN THEN NaN ELSE -x

\* x + y where x or y is not finite
AddSpecial(x, y) ==
  IF x = NaN \/ y = NaN THEN NaN
  ELSE IF Finite(x) THEN y
  ELSE IF Finite(y) THEN x
  ELSE IF x = y THEN x
  ELSE NaN

\* x + y and x - y (in either format)
Add(x, y) == IF Finite(x) /\ Finite(y) THEN x + y ELSE AddSpecial(x, y)
Sub(x, y) == IF Finite(x) /\ Finite(y) THEN x - y ELSE AddSpecial(x, Neg(y))

\* x * y where x or y is not finite
MulSpecial(x, y) ==
  IF x = NaN \/ y = NaN THEN NaN
  ELSE IF x = 0 \/ y = 0 THEN NaN
  ELSE IF (x > 0) = (y > 0) THEN PosInf
  ELSE NegInf

\* x / y where x or y is not finite, or y = 0
DivSpecial(x, y) ==
  IF x = NaN \/ y = NaN THEN NaN
  ELSE IF Finite(x) /\ Finite(y) THEN       \* y = 0
         IF x = 0 THEN NaN ELSE IF x > 0 THEN PosInf ELSE NegInf
  ELSE IF Finite(x) THEN 0                  \* y is an Infinity
  ELSE IF ~Finite(y) THEN NaN               \* both are Infinities
  ELSE IF (x > 0) = (y >= 0) THEN PosInf    \* x is an Infinity
  ELSE NegInf

(***************************************************************************)
(* The operators on finite values                                          *)
(***************************************************************************)
\* x * (num/den) for a decimal literal num/den (num, den > 0), in x's format
ScaleFinite(x, num, den) == (x * num) \div den

Hi(x) == x \div Half
Lo(x) == x % Half

\* a * b, both in the 15-bit format: floor(a * b / 2^15)
MulFixFinite(a, b) ==
  Hi(a) * Hi(b) * Half + Hi(a) * Lo(b) + Lo(a) * Hi(b) + ((Lo(a) * Lo(b)) \div Half)

\* a * g for g in the 30-bit format, the result in a's format: floor(a * g / 2^30)
MulGateFinite(a, g) ==
  Hi(a) * Hi(g) + ((Hi(a) * Lo(g) + Lo(a) * Hi(g) + ((Lo(a) * Lo(g)) \div Half)) \div Half)

\* floor(n * 2^15 / d) for d > 0, by long division, five bits at a time
DivPos15(n, d) ==
  LET r1 == (n % d) * 32
      r2 == (r1 % d) * 32
      r3 == (r2 % d) * 32
  IN  (n \div d) * Half + (r1 \div d) * 1024 + (r2 \div d) * 32 + (r3 \div d)

\* a / b, all in the 15-bit format (b # 0)
DivFixFinite(a, b) == IF b < 0 THEN DivPos15(-a, -b) ELSE DivPos15(a, b)

\* a / b for 0 <= a <= b, b > 0 in the 15-bit format, the result in the 30-bit
\* format: floor(a * 2^30 / b)
DivGate(a, b) ==
  LET q1 == DivPos15(a, b)
      r3 == ((((((a % b) * 32) % b) * 32) % b) * 32) % b
  IN  q1 * Half + DivPos15(r3, b)

\* a value of the 15-bit format times dt = num/den, in the 30-bit format:
\* floor(x * 2^15 * num / den)
ScaleToGateFinite(x, num, den) ==
  ((x * num) \div den) * Half + ((((x * num) % den) * Half) \div den)

\* Math.exp on the 15-bit format: exp(x) = 2^k * exp(r) with r = x - k ln 2;
\* ln 2 = (Ln2Hi * 2^15 + Ln2Lo) / 2^30; exp(r) - 1 by the Taylor polynomial of
\* degree 9 in Horner form, in the 30-bit format
Ln2Hi == Dec(22713, 32768)
Ln2Lo == Dec(1534, 32768)
ExpM1(r) ==
  LET w9 == ScaleFinite(r, 1, 9)
      w8 == ScaleFinite(r, 1, 8) + MulGateFinite(ScaleFinite(r, 1, 8), w9)
      w7 == ScaleFinite(r, 1, 7) + MulGateFinite(ScaleFinite(r, 1, 7), w8)
      w6 == ScaleFinite(r, 1, 6) + MulGateFinite(ScaleFinite(r, 1, 6), w7)
      w5 == ScaleFinite(r, 1, 5) + MulGateFinite(ScaleFinite(r, 1, 5), w6)
      w4 == ScaleFinite(r, 1, 4) + MulGateFinite(ScaleFinite(r, 1, 4), w5)
      w3 == ScaleFinite(r, 1, 3) + MulGateFinite(ScaleFinite(r, 1, 3), w4)
      w2 == ScaleFinite(r, 1, 2) + MulGateFinite(ScaleFinite(r, 1, 2), w3)
  IN  r + MulGateFinite(r, w2)
ExpFinite(x) ==
  LET k == x \div Ln2Hi
      r == (x - k * Ln2Hi) * Half - k * Ln2Lo
      e == GateOne + ExpM1(r)
  IN  IF k >= 15 THEN e * (2^(k - 15))
      ELSE IF k <= -16 THEN 0
      ELSE e \div (2^(15 - k))

(***************************************************************************)
(* The operators of the source: the finite operators, extended to the      *)
(* non-finite values                                                       *)
(***************************************************************************)
\* x * (num/den) for a decimal literal num/den (num, den > 0), in x's format
Scale(x, num, den) == IF Finite(x) THEN ScaleFinite(x, num, den) ELSE x

\* a * b, both in the 15-bit format
MulFix(a, b) ==
  IF Finite(a) /\ Finite(b) THEN MulFixFinite(a, b) ELSE MulSpecial(a, b)

\* a * g for g in the 30-bit format, the result in a's format
MulGate(a, g) ==
  IF Finite(a) /\ Finite(g) THEN MulGateFinite(a, g) ELSE MulSpecial(a, g)

\* a / b, all in the 15-bit format
DivFix(a, b) ==
  IF Finite(a) /\ Finite(b) /\ b # 0 THEN DivFixFinite(a, b)
  ELSE DivSpecial(a, b)

\* Math.pow(g, 3) and Math.pow(g, 4) of a gating variable
Pow3(g) == MulGate(MulGate(g, g), g)
Pow4(g) == MulGate(MulGate(MulGate(g, g), g), g)

\* a product one factor of which is not finite: NaN if a factor is NaN or 0
\* (0 * Infinity), else the Infinity with the sign of the product.  The factors
\* are taken one by one: the rounding of a partial product of finite factors
\* to 0 must not stand for a factor that is 0.
ProductSpecial(factors) ==
  IF \E i \in DOMAIN factors : factors[i] = NaN \/ factors[i] = 0 THEN NaN
  ELSE IF Cardinality({i \in DOMAIN factors : factors[i] < 0}) % 2 = 0 THEN PosInf
  ELSE NegInf

\* g_Na * Math.pow(m, 3) * h * (V - E_Na), drive = V - E_Na
SodiumProduct(g, m, h, drive) ==
  IF Finite(g) /\ Finite(m) /\ Finite(h) /\ Finite(drive)
  THEN MulGate(MulFix(g, drive), MulGate(Pow3(m), h))
  ELSE ProductSpecial(<<g, m, m, m, h, drive>>)

\* g_K * Math.pow(n, 4) * (V - E_K), drive = V - E_K
PotassiumProduct(g, n, drive) ==
  IF Finite(g) /\ Finite(n) /\ Finite(drive)
  THEN MulGate(MulFix(g, drive), Pow4(n))
  ELSE ProductSpecial(<<g, n, n, n, n, drive>>)

\* a value of the 15-bit format times dt = num/den, in the 30-bit format
ScaleToGate(x, num, den) ==
  IF Finite(x) THEN ScaleToGateFinite(x, num, den) ELSE x

\* Math.exp on the 15-bit format
ExpFix(x) ==
  IF Finite(x) THEN ExpFinite(x)
  ELSE IF x = NegInf THEN 0
  ELSE x

(***************************************************************************)
(* RateModel: services/hhSolver, rate functions (v = V + 65)               *)
(***************************************************************************)
\* Math.abs(d) < 1e-6 on a d of the 15-bit format
NearZero(d) == Finite(d) /\ Abs(d) <= 2000 /\ Abs(d) * 1000000 < FixOne

\* x / (Math.exp(x / 10) - 1), the quotient of alpha_n and alpha_m, taken before
\* the factor 0.01 (0.1 for alpha_m) so that the fixed-point quotient keeps its
\* precision.  Near x = 0 numerator and denominator are both small: there x / 10
\* and exp(x / 10) - 1 are taken in the 30-bit format.  At x = 0 the quotient is
\* 0 / 0.
FineRange == Fix(6)

\* the k fraction bits of r / d for 0 <= r < d < 2^30, by long division, one bit
\* at a time
RECURSIVE DivBits(_, _, _)
DivBits(r, d, k) ==
  IF k = 0 THEN 0
  ELSE ((2 * r) \div d) * 2^(k - 1) + DivBits((2 * r) % d, d, k - 1)

\* a / b for a, b of the 30-bit format of the same sign, b # 0, the result in
\* the 15-bit format
DivWide(a, b) ==
  LET n == Abs(a)
      d == Abs(b)
  IN  (n \div d) * Half + DivBits(n % d, d, 15)

RateQuotient(x) ==
  IF Finite(x) /\ Abs(x) < FineRange
  THEN LET r == ScaleToGateFinite(x, 1, 10)
           e == ExpM1(r)
       IN  IF e = 0 THEN DivSpecial(x, 0)
           ELSE ScaleFinite(DivWide(r, e), 10, 1)
  ELSE DivFix(x, Sub(ExpFix(Scale(x, 1, 10)), FixOne))

\* variant: without the singularity handling
alpha_nUnguarded(V) ==
  LET v == Add(V, Fix(65))
      x == Sub(Fix(10), v)
  IN  Scale(RateQuotient(x), 1, 100)

alpha_n(V) ==
  LET v == Add(V, Fix(65))
      x == Sub(Fix(10), v)
  IN  IF NearZero(Sub(v, Fix(10))) THEN Dec(1, 10)
      ELSE Scale(RateQuotient(x), 1, 100)

beta_n(V) ==
  LET v == Add(V, Fix(65))
  IN  Scale(ExpFix(Scale(Neg(v), 1, 80)), 125, 1000)

alpha_m(V) ==
  LET v == Add(V, Fix(65))
      x == Sub(Fix(25), v)
  IN  IF NearZero(Sub(v, Fix(25))) THEN Fix(1)
      ELSE Scale(RateQuotient(x), 1, 10)

beta_m(V) ==
  LET v == Add(V, Fix(65))
  IN  Scale(ExpFix(Scale(Neg(v), 1, 18)), 4, 1)

alpha_h(V) ==
  LET v == Add(V, Fix(65))
  IN  Scale(ExpFix(Scale(Neg(v), 1, 20)), 7, 100)

beta_h(V) ==
  LET v == Add(V, Fix(65))
  IN  DivFix(FixOne, Add(ExpFix(Scale(Sub(Fix(30), v), 1, 10)), FixOne))

(***************************************************************************)
(* IEEE-754 binary64 values that are multiples of 2^-57 and below 128:     *)
(* [neg, mag] with mag = <<a, b, c>> standing for (a*2^42 + b*2^21 + c)    *)
(* units of 2^-57.  Zero is [neg |-> FALSE, mag |-> <<0,0,0>>].            *)
(***************************************************************************)
Limb == 2^21

F64Zero == [neg |-> FALSE, mag |-> <<0, 0, 0>>]

\* an integer 0 <= i < 128 as a binary64 value (i * 2^57 units)
F64Int(i) == [neg |-> FALSE, mag |-> <<i * (2^15), 0, 0>>]

MagLess(x, y) ==
  \/ x[1] < y[1]
  \/ x[1] = y[1] /\ x[2] < y[2]
  \/ x[1] = y[1] /\ x[2] = y[2] /\ x[3] < y[3]

MagAdd(x, y) ==
  LET c  == x[3] + y[3]
      b  == x[2] + y[2] + (c \div Limb)
  IN  << x[1] + y[1] + (b \div Limb), b % Limb, c % Limb >>

\* x - y for y <= x
MagSub(x, y) ==
  LET c  == x[3] - y[3]
      bc == IF c < 0 THEN 1 ELSE 0
      b  == x[2] - y[2] - bc
      bb == IF b < 0 THEN 1 ELSE 0
  IN  << x[1] - y[1] - bb, b + bb * Limb, c + bc * Limb >>

RECURSIVE BitLen(_)
BitLen(i) == IF i = 0 THEN 0 ELSE 1 + BitLen(i \div 2)

\* round an exact magnitude to 53 significant bits, to nearest, ties to even
MagRound(x) ==
  LET s    == BitLen(x[1]) - 11       \* bits beyond the 53-bit significand
  IN  IF s <= 0 THEN x
      ELSE LET ulp  == 2^s
               rem  == x[3] % ulp
               down == << x[1], x[2], x[3] - rem >>
               odd  == ((x[3] \div ulp) % 2) = 1
               up   == rem * 2 > ulp \/ (rem * 2 = ulp /\ odd)
           IN  IF up THEN MagAdd(down, <<0, 0, ulp>>) ELSE down

F64Norm(neg, mag) ==
  IF mag = <<0, 0, 0>> THEN F64Zero ELSE [neg |-> neg, mag |-> mag]

\* x + y in binary64
F64Add(x, y) ==
  IF x.neg = y.neg
  THEN F64Norm(x.neg, MagRound(MagAdd(x.mag, y.mag)))
  ELSE IF MagLess(x.mag, y.mag)
       THEN F64Norm(y.neg, MagRound(MagSub(y.mag, x.mag)))
       ELSE F64Norm(x.neg, MagRound(MagSub(x.mag, y.mag)))

\* x - y in binary64
F64Sub(x, y) == F64Add(x, F64Norm(~y.neg, y.mag))

F64Less(x, y) ==
  IF x.neg /\ ~y.neg THEN x # y
  ELSE IF ~x.neg /\ y.neg THEN FALSE
  ELSE IF x.neg THEN MagLess(y.mag, x.mag)
  ELSE MagLess(x.mag, y.mag)

F64Positive(x) == ~x.neg /\ x.mag # <<0, 0, 0>>

(***************************************************************************)
(* Integrator: services/hhSolver                                           *)
(***************************************************************************)
\* A time step dt: num/den is its decimal value, used in the fixed-point
\* products; f64 is its binary64 value, used in t + dt and pulse - dt.
\* 0.05 in binary64 is 3602879701896397 * 2^-56.
Step005 == [num |-> 1, den |-> 20, f64 |-> [neg |-> FALSE, mag |-> <<1638, 838860, 1677722>>]]

\* The products g * x^k * (V - E) are associated as (g * (V - E)) * x^k so that
\* the fixed-point intermediate results keep their precision.
\* variant: t advances by the length of a frame in every step
AdvanceTimeByFrame(t, dt) ==
  F64Add(t, F64Add(F64Add(dt.f64, dt.f64), F64Add(dt.f64, dt.f64)))

\* t + dt
AdvanceTime(t, dt) == F64Add(t, dt.f64)

\* variant: the result is clamped to the range [0, 1] of a probability
GateStepClamped(g, dg, dt) ==
  LET r == Add(g, ScaleToGate(dg, dt.num, dt.den))
  IN  IF r = NaN THEN 0 ELSE IF r < 0 THEN 0 ELSE IF r > GateOne THEN GateOne ELSE r

\* g + dg * dt for a gating variable g
GateStep(g, dg, dt) == Add(g, ScaleToGate(dg, dt.num, dt.den))

\* variant: semi-implicit Euler, the gating derivatives are taken at the new V
solveHHSemiImplicit(state, params, dt) ==
  LET V == state.V
      m == state.m
      h == state.h
      n == state.n
      I_Na == SodiumProduct(params.g_Na, m, h, Sub(V, params.E_Na))
      I_K  == PotassiumProduct(params.g_K, n, Sub(V, params.E_K))
      I_L  == MulFix(params.g_L, Sub(V, params.E_L))
      dV == DivFix(Sub(params.I_ext, Add(Add(I_Na, I_K), I_L)), params.Cm)
      W  == Add(V, Scale(dV, dt.num, dt.den))
      dm == Sub(MulGate(alpha_m(W), Sub(GateOne, m)), MulGate(beta_m(W), m))
      dh == Sub(MulGate(alpha_h(W), Sub(GateOne, h)), MulGate(beta_h(W), h))
      dn == Sub(MulGate(alpha_n(W), Sub(GateOne, n)), MulGate(beta_n(W), n))
  IN  [V |-> W,
       m |-> GateStep(m, dm, dt),
       h |-> GateStep(h, dh, dt),
       n |-> GateStep(n, dn, dt),
       t |-> AdvanceTime(state.t, dt)]

solveHH(state, params, dt) ==
  LET V == state.V
      m == state.m
      h == state.h
      n == state.n
      I_Na == SodiumProduct(params.g_Na, m, h, Sub(V, params.E_Na))
      I_K  == PotassiumProduct(params.g_K, n, Sub(V, params.E_K))
      I_L  == MulFix(params.g_L, Sub(V, params.E_L))
      dV == DivFix(Sub(params.I_ext, Add(Add(I_Na, I_K), I_L)), params.Cm)
      dm == Sub(MulGate(alpha_m(V), Sub(GateOne, m)), MulGate(beta_m(V), m))
      dh == Sub(MulGate(alpha_h(V), Sub(GateOne, h)), MulGate(beta_h(V), h))
      dn == Sub(MulGate(alpha_n(V), Sub(GateOne, n)), MulGate(beta_n(V), n))
  IN  [V |-> Add(V, Scale(dV, dt.num, dt.den)),
       m |-> GateStep(m, dm, dt),
       h |-> GateStep(h, dh, dt),
       n |-> GateStep(n, dn, dt),
       t |-> AdvanceTime(state.t, dt)]

\* variant: the equilibrium quotients lack the sum in the denominator
getInitialStateRatio ==
  LET V_rest == Fix(-65)
  IN  [V |-> V_rest,
       m |-> DivGate(alpha_m(V_rest), beta_m(V_rest)),
       h |-> DivGate(beta_h(V_rest), alpha_h(V_rest)),
       n |-> DivGate(alpha_n(V_rest), beta_n(V_rest)),
       t |-> F64Zero]

getInitialState ==
  LET V_rest == Fix(-65)
      a_m == alpha_m(V_rest)
      b_m == beta_m(V_rest)
      a_h == alpha_h(V_rest)
      b_h == beta_h(V_rest)
      a_n == alpha_n(V_rest)
      b_n == beta_n(V_rest)
  IN  [V |-> V_rest,
       m |-> DivGate(a_m, a_m + b_m),
       h |-> DivGate(a_h, a_h + b_h),
       n |-> DivGate(a_n, a_n + b_n),
       t |-> F64Zero]

(***************************************************************************)
(* App.tsx: constants                                                      *)
(***************************************************************************)
HISTORY_LENGTH == 300
STEPS_PER_FRAME == 5
DT == Step005

\* the literals of the pulse logic: "currentI += 20" and "pulseRef.current = 20"
PulseBonus == 20
PulseDuration == 20

BIOLOGICAL_PARAMS ==
  [Cm |-> Fix(1), E_Na |-> Fix(50), E_K |-> Fix(-77), E_L |-> Dec(-544, 10),
   g_Na |-> Fix(120), g_K |-> Fix(36), g_L |-> Dec(3, 10), I_ext |-> Fix(0)]

ParamFields == DOMAIN BIOLOGICAL_PARAMS

(***************************************************************************)
(* Bounds of the model and the inputs of the host operations               *)
(***************************************************************************)
MaxFrames == 5         \* Spec: frames run
MaxOps == 2            \* Spec: host operations issued
PulseLead == 2         \* SpecPulse: injectPulse is issued within the first frames
PulseTail == 2         \* SpecPulse: frames run after the last pulse has ended
PulseWindow == 2       \* SpecPulse: the other host operation is issued up to
                       \* PulseWindow frames after the lead or from PulseWindow
                       \* frames before the end of a pulse injected at the start
LongOverrun == 3       \* SpecLong: frames run beyond HISTORY_LENGTH
LongWindow == 2        \* SpecLong: host operations are issued in the first
                       \* LongWindow frames or from HISTORY_LENGTH - LongWindow on

MaxSteps == 5          \* SpecStep: calls of step
MaxStepOps == 2        \* SpecStep: host operations issued
MaxRateSteps == 2      \* SpecRate: calls of step
RateSpan == 2          \* SpecRate: V is drawn up to RateSpan units of 2^-15 mV
                       \* around the singular points of alpha_n and alpha_m
MaxQueuedFrames == 2   \* SpecQueued: frames run
MaxUnrendered == 1     \* updates React holds queued when a frame starts: a
                       \* frame runs only with fewer than MaxUnrendered queued
MaxQueuedOps == 3      \* SpecQueued: host operations issued

\* the length of a pulse in sub-steps (20 ms / 0.05 ms = 400) and in frames (80)
PulseSubSteps == (PulseDuration * DT.den) \div DT.num
PulseFrames == PulseSubSteps \div STEPS_PER_FRAME

\* the Partial<HHParameters> values handed to handleParamChange: the sliders of
\* ControlPanel send one field each; a two-field partial exercises the merge
PartialInputs ==
  { [f \in {"I_ext"} |-> Fix(10)],
    [f \in {"I_ext"} |-> Fix(-10)],
    [f \in {"g_Na"} |-> Fix(100)],
    [f \in {"g_K", "g_L"} |-> IF f = "g_K" THEN Fix(30) ELSE Dec(50, 100)] }

\* the HHState values handed to solveHH on its own: the resting state, a state
\* in the upstroke of an action potential, and a strongly hyperpolarized state
\* (solveHH is exported and takes any HHState)
StepStates ==
  { getInitialState,
    [V |-> Fix(-20), m |-> GateOne \div 2, h |-> GateOne \div 2,
     n |-> GateOne \div 2, t |-> F64Zero],
    [V |-> Fix(-100), m |-> GateOne \div 20, h |-> 6 * (GateOne \div 10),
     n |-> 3 * (GateOne \div 10), t |-> F64Zero] }

\* the membrane potentials at which the rate functions are evaluated on their
\* own: the singular points -55 mV and -40 mV and their nearest neighbours, and
\* the range of an action potential and beyond
RateInputs ==
  {Fix(-55) + o : o \in -RateSpan..RateSpan}
    \cup {Fix(-40) + o : o \in -RateSpan..RateSpan}
    \cup {Fix(5 * k) : k \in -20..12}
RateStates == {[getInitialState EXCEPT !.V = V] : V \in RateInputs}

\* Partial<HHParameters> values that no slider sends but handleParamChange takes
\* as they come: a zero capacitance, negative conductances
UnvalidatedInputs ==
  { [f \in {"Cm", "I_ext"} |-> IF f = "Cm" THEN Fix(0) ELSE Fix(10)],
    [f \in {"g_K"} |-> Fix(-36)],
    [f \in {"g_L"} |-> Dec(-3, 10)],
    [f \in {"I_ext"} |-> Fix(10)] }

(***************************************************************************)
(* App.tsx: state                                                          *)
(***************************************************************************)
VARIABLES
  stateRef,       \* stateRef.current: the live HHState
  paramsRef,      \* paramsRef.current: the parameters the loop reads
  params,         \* the params React state, shown by the UI
  pulseRef,       \* pulseRef.current: the pulse countdown (ms), binary64
  simHistory,     \* the simHistory React state: the published history
  historyBuffer,  \* the loop's local historyBuffer
  \* observation variables (no counterpart in the code)
  lastOp,         \* the last step: "init", "frame", "inject", "update", "reset",
                  \* "render" (React applied its queue), "teardown"
  pre,            \* the state before the last step: op is the step before it,
                  \* through the step before it that was not a render
  lastFrame,      \* the last frame's sub-steps: paramsRef, the countdown before
                  \* each sub-step and after the last, each currentI
  sinceReset,     \* frames run since the last reset(), -1 before any reset
  sinceInject,    \* sub-steps run since the last injectPulse(); -1 if there was
                  \* none or a reset() came after it
  boosted,        \* sub-steps since the last injectPulse() that got the bonus
  pulseAtReset,   \* the countdown the last reset() found (0 before any reset)
  nFrames,        \* frames run
  nOps,           \* host operations issued
  nInject,        \* injectPulse() calls issued
  lastPartial,    \* the argument of the last updateParameters (<<>> before any)
  \* the frame-driving mechanism
  rafPending,     \* callbacks of loop scheduled by requestAnimationFrame
  tornDown,       \* the effect's cleanup has run
  \* the preset selection of the specification (the App of src/ has none)
  mode,           \* the SimulationMode selected
  \* array identities (the other variables hold contents)
  viewShared,     \* the array held by the simHistory state is the very array
                  \* the loop's historyBuffer refers to
  handed,         \* a sequence handed to the visualization earlier: as it was
                  \* then, and as that array is now
  \* React's update queue
  pending         \* the setParams / setSimHistory calls React has queued and
                  \* not yet applied, in the order of the calls

vars == <<stateRef, paramsRef, params, pulseRef, simHistory, historyBuffer,
          lastOp, pre, lastFrame, sinceReset, sinceInject, boosted,
          pulseAtReset, nFrames, nOps, nInject, lastPartial, rafPending,
          tornDown, mode, viewShared, handed, pending>>

Snapshot ==
  [state |-> stateRef, paramsRef |-> paramsRef, params |-> params,
   pulse |-> pulseRef, nView |-> Len(simHistory), nBuffer |-> Len(historyBuffer),
   op |-> lastOp, pending |-> pending,
   through |-> IF lastOp = "render" THEN pre.through ELSE lastOp]

NoFrame == [params |-> BIOLOGICAL_PARAMS, pulse |-> <<>>, currentI |-> <<>>]

Init ==
  /\ stateRef = getInitialState
  /\ paramsRef = BIOLOGICAL_PARAMS
  /\ params = BIOLOGICAL_PARAMS
  /\ pulseRef = F64Zero
  /\ simHistory = <<>>
  /\ historyBuffer = <<>>
  /\ lastOp = "init"
  /\ pre = [state |-> getInitialState, paramsRef |-> BIOLOGICAL_PARAMS,
            params |-> BIOLOGICAL_PARAMS, pulse |-> F64Zero, nView |-> 0,
            nBuffer |-> 0, op |-> "init", pending |-> <<>>,
            through |-> "init"]
  /\ lastFrame = NoFrame
  /\ sinceReset = -1
  /\ sinceInject = -1
  /\ boosted = 0
  /\ pulseAtReset = F64Zero
  /\ nFrames = 0
  /\ nOps = 0
  /\ nInject = 0
  /\ lastPartial = <<>>
  /\ rafPending = 0
  /\ tornDown = FALSE
  /\ mode = "BIOLOGICAL"
  /\ viewShared = FALSE
  /\ handed = [then |-> <<>>, now |-> <<>>]
  /\ pending = <<>>

(***************************************************************************)
(* App.tsx: handlers                                                       *)
(***************************************************************************)
\* variant: the partial is merged into the defaults instead of the previous set
MergeParamsOntoDefaults(prev, newParams) ==
  [f \in ParamFields |-> IF f \in DOMAIN newParams THEN newParams[f]
                                                   ELSE BIOLOGICAL_PARAMS[f]]

\* { ...prev, ...newParams }
MergeParams(prev, newParams) ==
  [f \in ParamFields |-> IF f \in DOMAIN newParams THEN newParams[f] ELSE prev[f]]

\* variant: the updater returns the merged set and leaves out
\* paramsRef.current = updated
handleParamChangeStateOnly(newParams) ==
  /\ params' = MergeParams(params, newParams)
  /\ paramsRef' = paramsRef
  /\ lastOp' = "update"
  /\ pre' = Snapshot
  /\ nOps' = nOps + 1
  /\ lastPartial' = newParams
  /\ UNCHANGED <<stateRef, pulseRef, simHistory, historyBuffer, lastFrame,
                 sinceReset, sinceInject, boosted, pulseAtReset, nFrames, nInject,
                 rafPending, tornDown,
                 mode,
                 viewShared, handed, pending>>

\* handleParamChange: the setParams updater merges into the previous params and
\* writes paramsRef; React runs it in the render that ends the handler's event,
\* before the next event or frame is handled.  An update of simHistory queued
\* by a frame is not part of that render and stays queued.
handleParamChange(newParams) ==
  /\ params' = MergeParams(params, newParams)
  /\ paramsRef' = MergeParams(params, newParams)
  /\ lastOp' = "update"
  /\ pre' = Snapshot
  /\ nOps' = nOps + 1
  /\ lastPartial' = newParams
  /\ UNCHANGED <<stateRef, pulseRef, simHistory, historyBuffer, lastFrame,
                 sinceReset, sinceInject, boosted, pulseAtReset, nFrames, nInject,
                 rafPending, tornDown,
                 mode,
                 viewShared, handed, pending>>

\* variant: the new pulse is added to what is left of the old one
handleInjectStacks ==
  /\ pulseRef' = F64Add(pulseRef, F64Int(PulseDuration))
  /\ lastOp' = "inject"
  /\ pre' = Snapshot
  /\ sinceInject' = 0
  /\ boosted' = 0
  /\ nOps' = nOps + 1
  /\ nInject' = nInject + 1
  /\ UNCHANGED <<stateRef, paramsRef, params, simHistory, historyBuffer,
                 lastFrame, sinceReset, pulseAtReset, nFrames, lastPartial,
                 rafPending, tornDown,
                 mode,
                 viewShared, handed, pending>>


\* variant: the countdown starts one dt short of 20 ms
handleInjectShort ==
  /\ pulseRef' = F64Sub(F64Int(PulseDuration), DT.f64)
  /\ lastOp' = "inject"
  /\ pre' = Snapshot
  /\ sinceInject' = 0
  /\ boosted' = 0
  /\ nOps' = nOps + 1
  /\ nInject' = nInject + 1
  /\ UNCHANGED <<stateRef, paramsRef, params, simHistory, historyBuffer,
                 lastFrame, sinceReset, pulseAtReset, nFrames, lastPartial,
                 rafPending, tornDown,
                 mode,
                 viewShared, handed, pending>>

\* variant: a pulse also restarts the neuron
handleInjectRestarts ==
  /\ pulseRef' = F64Int(PulseDuration)
  /\ stateRef' = getInitialState
  /\ lastOp' = "inject"
  /\ pre' = Snapshot
  /\ sinceInject' = 0
  /\ boosted' = 0
  /\ nOps' = nOps + 1
  /\ nInject' = nInject + 1
  /\ UNCHANGED <<paramsRef, params, simHistory, historyBuffer,
                 lastFrame, sinceReset, pulseAtReset, nFrames, lastPartial,
                 rafPending, tornDown,
                 mode,
                 viewShared, handed, pending>>

handleInject ==
  /\ pulseRef' = F64Int(PulseDuration)
  /\ lastOp' = "inject"
  /\ pre' = Snapshot
  /\ sinceInject' = 0
  /\ boosted' = 0
  /\ nOps' = nOps + 1
  /\ nInject' = nInject + 1
  /\ UNCHANGED <<stateRef, paramsRef, params, simHistory, historyBuffer,
                 lastFrame, sinceReset, pulseAtReset, nFrames, lastPartial,
                 rafPending, tornDown,
                 mode,
                 viewShared, handed, pending>>

\* the entries of React's update queue: a setParams updater, or a value handed
\* to setParams or setSimHistory
QueuedUpdater(newParams) == [hook |-> "params", updater |-> TRUE, arg |-> newParams]
QueuedValue(hook, value) == [hook |-> hook, updater |-> FALSE, arg |-> value]

\* setSimHistory([]) in handleReset when an update of a frame is still queued:
\* the render that ends the reset's event shows the empty history and leaves
\* the frame's update in the queue; React keeps the reset's update behind it,
\* so that the later render applies both in the order of the calls
ResetQueue(published) ==
  IF pending # <<>> /\ published = <<>>
  THEN Append(pending, QueuedValue("simHistory", <<>>))
  ELSE pending

\* what every variant of handleReset below does to the observation variables
ResetObserved ==
  /\ lastOp' = "reset"
  /\ pre' = Snapshot
  /\ sinceReset' = 0
  /\ sinceInject' = -1
  /\ boosted' = 0
  /\ pulseAtReset' = pulseRef
  /\ nOps' = nOps + 1
  /\ UNCHANGED <<historyBuffer, lastFrame, nFrames, nInject, lastPartial,
                 rafPending, tornDown,
                 mode>>
  /\ viewShared' = FALSE
  /\ handed' = [then |-> simHistory, now |-> simHistory]
  /\ pending' = ResetQueue(simHistory')

\* variant: setSimHistory([]) is left out
handleResetKeepsView ==
  /\ stateRef' = getInitialState
  /\ params' = BIOLOGICAL_PARAMS
  /\ paramsRef' = BIOLOGICAL_PARAMS
  /\ pulseRef' = F64Zero
  /\ simHistory' = simHistory
  /\ ResetObserved

\* variant: pulseRef.current = 0 is left out
handleResetKeepsPulse ==
  /\ stateRef' = getInitialState
  /\ params' = BIOLOGICAL_PARAMS
  /\ paramsRef' = BIOLOGICAL_PARAMS
  /\ pulseRef' = pulseRef
  /\ simHistory' = <<>>
  /\ ResetObserved

\* variant: paramsRef.current = BIOLOGICAL_PARAMS is left out
handleResetKeepsParamsRef ==
  /\ stateRef' = getInitialState
  /\ params' = BIOLOGICAL_PARAMS
  /\ paramsRef' = paramsRef
  /\ pulseRef' = F64Zero
  /\ simHistory' = <<>>
  /\ ResetObserved

\* handleReset: the effect's local historyBuffer is out of its reach
handleReset ==
  /\ stateRef' = getInitialState
  /\ params' = BIOLOGICAL_PARAMS
  /\ paramsRef' = BIOLOGICAL_PARAMS
  /\ pulseRef' = F64Zero
  /\ simHistory' = <<>>
  /\ lastOp' = "reset"
  /\ pre' = Snapshot
  /\ sinceReset' = 0
  /\ sinceInject' = -1
  /\ boosted' = 0
  /\ pulseAtReset' = pulseRef
  /\ nOps' = nOps + 1
  /\ UNCHANGED <<historyBuffer, lastFrame, nFrames, nInject, lastPartial,
                 rafPending, tornDown,
                 mode>>
  /\ viewShared' = FALSE
  /\ handed' = [then |-> simHistory, now |-> simHistory]
  /\ pending' = ResetQueue(simHistory')

(***************************************************************************)
(* App.tsx: the handlers when React batches their updates.  setParams and  *)
(* setSimHistory do not change the state at the call: React queues the     *)
(* update and applies the queue, in the order of the calls, when it        *)
(* renders next.  An updater function is run when the queue is applied;    *)
(* when nothing else is queued React may run it at the call and queue its  *)
(* result.  The writes to the refs take effect at once.                    *)
(***************************************************************************)
\* handleParamChange in a batch: setParams(prev => ...) queues the updater; the
\* updater's body (the merge and paramsRef.current = updated) runs when React
\* applies it, or at the call if React computes the state eagerly
handleParamChangeQueued(newParams) ==
  /\ \E eager \in (IF pending = <<>> THEN BOOLEAN ELSE {FALSE}) :
       IF eager
       THEN /\ paramsRef' = MergeParams(params, newParams)
            /\ pending' = Append(pending,
                            QueuedValue("params", MergeParams(params, newParams)))
       ELSE /\ paramsRef' = paramsRef
            /\ pending' = Append(pending, QueuedUpdater(newParams))
  /\ lastOp' = "update"
  /\ pre' = Snapshot
  /\ nOps' = nOps + 1
  /\ lastPartial' = newParams
  /\ UNCHANGED <<stateRef, params, pulseRef, simHistory, historyBuffer,
                 lastFrame, sinceReset, sinceInject, boosted, pulseAtReset,
                 nFrames, nInject, rafPending, tornDown, mode, viewShared,
                 handed>>

\* handleReset in a batch: the refs are written at once, setParams and
\* setSimHistory are queued
handleResetQueued ==
  /\ stateRef' = getInitialState
  /\ paramsRef' = BIOLOGICAL_PARAMS
  /\ pulseRef' = F64Zero
  /\ pending' = pending \o <<QueuedValue("params", BIOLOGICAL_PARAMS),
                             QueuedValue("simHistory", <<>>)>>
  /\ lastOp' = "reset"
  /\ pre' = Snapshot
  /\ sinceReset' = 0
  /\ sinceInject' = -1
  /\ boosted' = 0
  /\ pulseAtReset' = pulseRef
  /\ nOps' = nOps + 1
  /\ UNCHANGED <<params, simHistory, historyBuffer, lastFrame, nFrames,
                 nInject, lastPartial, rafPending, tornDown, mode, viewShared,
                 handed>>

\* React applies the queue to st = [params, paramsRef, simHistory]: a value
\* replaces the state of its hook, the updater of handleParamChange merges into
\* the state the entries before it left and writes paramsRef.current
RECURSIVE ApplyPending(_, _)
ApplyPending(queue, st) ==
  IF queue = <<>> THEN st
  ELSE LET u == Head(queue)
           applied ==
             IF u.hook = "simHistory" THEN [st EXCEPT !.simHistory = u.arg]
             ELSE IF u.updater
             THEN [st EXCEPT !.params = MergeParams(st.params, u.arg),
                             !.paramsRef = MergeParams(st.params, u.arg)]
             ELSE [st EXCEPT !.params = u.arg]
       IN  ApplyPending(Tail(queue), applied)

\* variant: setSimHistory(historyBuffer), the buffer itself is published
PublishSharesBuffer == TRUE

\* setSimHistory([...historyBuffer]): the published array is a fresh copy, it
\* does not share the buffer's array
PublishShares == FALSE

\* a batch is open: a handler's setParams is queued
BatchOpen == \E i \in DOMAIN pending : pending[i].hook = "params"

\* the render that applies the queue; React drops the updates of a component
\* that is gone
applyUpdates ==
  /\ pending # <<>>
  /\ ~tornDown
  /\ LET st == ApplyPending(pending, [params |-> params, paramsRef |-> paramsRef,
                                      simHistory |-> simHistory])
     IN  /\ params' = st.params
         /\ paramsRef' = st.paramsRef
         /\ simHistory' = st.simHistory
         /\ viewShared' =
              IF \E i \in DOMAIN pending : pending[i].hook = "simHistory"
              THEN PublishShares /\ st.simHistory # <<>>
                     /\ st.simHistory = historyBuffer
              ELSE viewShared
  /\ handed' = [then |-> simHistory, now |-> simHistory]
  /\ pending' = <<>>
  /\ lastOp' = "render"
  /\ pre' = Snapshot
  /\ UNCHANGED <<stateRef, pulseRef, historyBuffer, lastFrame, sinceReset,
                 sinceInject, boosted, pulseAtReset, nFrames, nOps, nInject,
                 lastPartial, rafPending, tornDown, mode>>

(***************************************************************************)
(* Preset selection, as the specification describes it.  src/ holds the    *)
(* SimulationMode enum and the mode / onModeToggle props of ControlPanel;  *)
(* the handler behind them is not part of src/.                            *)
(***************************************************************************)
SimulationMode == {"BIOLOGICAL", "CYBERNETIC"}

\* the high-excitability preset (its values are not part of src/; any set that
\* differs from the baseline serves)
CYBERNETIC_PARAMS == [BIOLOGICAL_PARAMS EXCEPT !.g_Na = Fix(150)]

PresetParams(name) ==
  IF name = "CYBERNETIC" THEN CYBERNETIC_PARAMS ELSE BIOLOGICAL_PARAMS

\* variant: selecting a preset also restarts the neuron
selectPresetResets(name) ==
  /\ mode' = name
  /\ params' = PresetParams(name)
  /\ paramsRef' = PresetParams(name)
  /\ stateRef' = getInitialState
  /\ pulseRef' = F64Zero
  /\ lastOp' = "preset"
  /\ pre' = Snapshot
  /\ nOps' = nOps + 1
  /\ UNCHANGED <<simHistory, historyBuffer, lastFrame, sinceReset,
                 sinceInject, boosted, pulseAtReset, nFrames, nInject,
                 lastPartial, rafPending, tornDown,
                 viewShared, handed, pending>>

\* selectPreset(name): replaces the active parameters with the preset's values
selectPreset(name) ==
  /\ mode' = name
  /\ params' = PresetParams(name)
  /\ paramsRef' = PresetParams(name)
  /\ lastOp' = "preset"
  /\ pre' = Snapshot
  /\ nOps' = nOps + 1
  /\ UNCHANGED <<stateRef, pulseRef, simHistory, historyBuffer, lastFrame,
                 sinceReset, sinceInject, boosted, pulseAtReset, nFrames,
                 nInject, lastPartial, rafPending, tornDown,
                 viewShared, handed, pending>>

\* reset() where presets exist: handleReset, with the defaults of the selected
\* preset in the place of BIOLOGICAL_PARAMS
resetSelected ==
  /\ stateRef' = getInitialState
  /\ params' = PresetParams(mode)
  /\ paramsRef' = PresetParams(mode)
  /\ pulseRef' = F64Zero
  /\ simHistory' = <<>>
  /\ lastOp' = "reset"
  /\ pre' = Snapshot
  /\ sinceReset' = 0
  /\ sinceInject' = -1
  /\ boosted' = 0
  /\ pulseAtReset' = pulseRef
  /\ nOps' = nOps + 1
  /\ UNCHANGED <<historyBuffer, lastFrame, nFrames, nInject, lastPartial,
                 rafPending, tornDown, mode>>
  /\ viewShared' = FALSE
  /\ handed' = [then |-> simHistory, now |-> simHistory]
  /\ pending' = ResetQueue(simHistory')

(***************************************************************************)
(* App.tsx: the simulation loop (one requestAnimationFrame callback)       *)
(***************************************************************************)
\* let currentI = paramsRef.current.I_ext; if (pulseRef.current > 0) currentI += 20
\* variant: the pulse bonus is left out
EffectiveCurrentBaseline(p, pulse) == p.I_ext

EffectiveCurrent(p, pulse) ==
  IF F64Positive(pulse) THEN Add(p.I_ext, Fix(PulseBonus)) ELSE p.I_ext

\* variant: the countdown is never decremented
PulseAfterNoDecrement(pulse) == pulse

\* variant: the decrement is outside the if
PulseAfterUnconditional(pulse) == F64Sub(pulse, DT.f64)

\* if (pulseRef.current > 0) pulseRef.current -= DT
PulseAfter(pulse) ==
  IF F64Positive(pulse) THEN F64Sub(pulse, DT.f64) ELSE pulse

\* variant: the countdown is decremented before it is tested
SubStepDecrementFirst(sim, p) ==
  LET decremented == PulseAfter(sim.pulse)
      currentI == EffectiveCurrent(p, decremented)
      nextState == solveHH(sim.state, [p EXCEPT !.I_ext = currentI], DT)
  IN  [state |-> nextState,
       pulse |-> decremented,
       pulses |-> Append(sim.pulses, sim.pulse),
       currents |-> Append(sim.currents, currentI)]

\* one iteration of the for loop; sim = [state, pulse, pulses, currents]
SubStep(sim, p) ==
  LET currentI == EffectiveCurrent(p, sim.pulse)
      nextState == solveHH(sim.state, [p EXCEPT !.I_ext = currentI], DT)
  IN  [state |-> nextState,
       pulse |-> PulseAfter(sim.pulse),
       pulses |-> Append(sim.pulses, sim.pulse),
       currents |-> Append(sim.currents, currentI)]

\* variant: the frame yields one sub-step early
RECURSIVE RunSubStepsPartial(_, _, _)
RunSubStepsPartial(sim, p, i) ==
  IF i < STEPS_PER_FRAME - 1 THEN RunSubStepsPartial(SubStep(sim, p), p, i + 1)
  ELSE sim

\* variant: every sub-step integrates the state the frame started with
RECURSIVE RunSubStepsStale(_, _, _)
RunSubStepsStale(sim, p, i) ==
  IF i < STEPS_PER_FRAME - 1
  THEN RunSubStepsStale([SubStep(sim, p) EXCEPT !.state = sim.state], p, i + 1)
  ELSE IF i < STEPS_PER_FRAME THEN SubStep(sim, p)
  ELSE sim

RECURSIVE RunSubSteps(_, _, _)
RunSubSteps(sim, p, i) ==
  IF i < STEPS_PER_FRAME THEN RunSubSteps(SubStep(sim, p), p, i + 1) ELSE sim

\* variant: the live record is pushed, not a copy, and the step updates it in
\* place, so every entry pushed so far shows the latest state
PushHistoryShared(buffer, state) ==
  [i \in 1..(IF Len(buffer) < HISTORY_LENGTH THEN Len(buffer) + 1
             ELSE HISTORY_LENGTH) |-> state]

\* variant: the slice keeps the first HISTORY_LENGTH entries, not the last
PushHistoryKeepsOldest(buffer, state) ==
  LET pushed == Append(buffer, state)
  IN  IF Len(pushed) > HISTORY_LENGTH THEN SubSeq(pushed, 1, HISTORY_LENGTH)
      ELSE pushed

\* variant: the buffer is never sliced
PushHistoryNoSlice(buffer, state) == Append(buffer, state)

\* variant: the new entry is put in front (unshift), the slice drops the end
PushHistoryFront(buffer, state) ==
  LET pushed == <<state>> \o buffer
  IN  IF Len(pushed) > HISTORY_LENGTH THEN SubSeq(pushed, 1, HISTORY_LENGTH)
      ELSE pushed

\* historyBuffer.push({...state}); slice to the last HISTORY_LENGTH entries
PushHistory(buffer, state) ==
  LET pushed == Append(buffer, state)
  IN  IF Len(pushed) > HISTORY_LENGTH
      THEN SubSeq(pushed, Len(pushed) - HISTORY_LENGTH + 1, Len(pushed))
      ELSE pushed

CountBoosted(currents, p) ==
  Cardinality({i \in DOMAIN currents : currents[i] # p.I_ext})

\* variant: paramsRef.current.I_ext = currentI, the current of the last sub-step
\* is written into the stored parameters
StoredAfterFrameWritten(p, currents) ==
  [p EXCEPT !.I_ext = currents[Len(currents)]]

\* paramsRef.current after the for loop: the loop reads it (I_ext into the local
\* currentI, the rest through a spread copy) and never writes it
StoredAfterFrame(p, currents) == p

\* historyBuffer.push works on the buffer's array in place: if the array handed
\* out before is that array, it changes with it.  slice and the spread copy
\* make new arrays.
\* setSimHistory is called in a requestAnimationFrame callback, outside any
\* React event handler.  What React does with it depends on the root the App
\* is rendered into, which is not part of src/: a legacy root renders at the
\* call, so the state has changed when the callback returns; a concurrent root
\* queues the update and renders in a later task, and host events can be
\* handled before that render.  Both are allowed.
\* (the frame's result is bound once by \E over a singleton)
loop ==
  \E sim \in {RunSubSteps([state |-> stateRef, pulse |-> pulseRef,
                           pulses |-> <<>>, currents |-> <<>>], paramsRef, 0)} :
  \E buffer \in {PushHistory(historyBuffer, sim.state)} :
  \E queued \in (IF pending = <<>> THEN BOOLEAN ELSE {TRUE}) :
      /\ Len(pending) < MaxUnrendered
      /\ stateRef' = sim.state
      /\ pulseRef' = sim.pulse
      /\ historyBuffer' = buffer
      /\ lastOp' = "frame"
      /\ pre' = Snapshot
      /\ lastFrame' = [params |-> paramsRef,
                       pulse |-> Append(sim.pulses, sim.pulse),
                       currentI |-> sim.currents]
      /\ sinceReset' = IF sinceReset >= 0 THEN sinceReset + 1 ELSE sinceReset
      /\ sinceInject' = IF sinceInject >= 0 THEN sinceInject + STEPS_PER_FRAME
                        ELSE sinceInject
      /\ boosted' = boosted + CountBoosted(sim.currents, paramsRef)
      /\ nFrames' = nFrames + 1
      /\ rafPending' = (IF rafPending > 0 THEN rafPending - 1 ELSE 0) + 1
      /\ paramsRef' = StoredAfterFrame(paramsRef, sim.currents)
      /\ UNCHANGED <<params, pulseAtReset, nOps, nInject, lastPartial,
                     tornDown, mode>>
      /\ IF queued
         THEN /\ pending' = Append(pending, QueuedValue("simHistory", buffer))
              /\ simHistory' = IF viewShared THEN Append(historyBuffer, sim.state)
                               ELSE simHistory
              /\ viewShared' = (viewShared /\ Len(historyBuffer) < HISTORY_LENGTH)
              /\ handed' = IF viewShared
                           THEN [then |-> simHistory,
                                 now |-> Append(historyBuffer, sim.state)]
                           ELSE handed
         ELSE /\ pending' = pending
              /\ simHistory' = buffer
              /\ viewShared' = PublishShares
              /\ handed' = [then |-> simHistory,
                            now |-> IF viewShared
                                    THEN Append(historyBuffer, sim.state)
                                    ELSE simHistory]

\* variant: the cleanup does not cancel the scheduled callback
teardownNoCancel ==
  /\ tornDown' = TRUE
  /\ rafPending' = rafPending
  /\ lastOp' = "teardown"
  /\ pre' = Snapshot
  /\ UNCHANGED <<stateRef, paramsRef, params, pulseRef, simHistory,
                 historyBuffer, lastFrame, sinceReset, sinceInject, boosted,
                 pulseAtReset, nFrames, nOps, nInject, lastPartial, mode,
                 viewShared, handed, pending>>

\* the effect's cleanup: cancelAnimationFrame(animationFrameId) cancels the
\* callback the last frame scheduled
teardown ==
  /\ tornDown' = TRUE
  /\ rafPending' = IF rafPending > 0 THEN rafPending - 1 ELSE 0
  /\ lastOp' = "teardown"
  /\ pre' = Snapshot
  /\ UNCHANGED <<stateRef, paramsRef, params, pulseRef, simHistory,
                 historyBuffer, lastFrame, sinceReset, sinceInject, boosted,
                 pulseAtReset, nFrames, nOps, nInject, lastPartial, mode,
                 viewShared, handed, pending>>

(***************************************************************************)
(* Specifications                                                          *)
(***************************************************************************)
\* the effect calls loop() once when it is set up, so the first frame has run
\* before the page can deliver any host operation; after the cleanup the
\* component is gone and delivers none
Mounted == nFrames >= 1 /\ ~tornDown

\* loop runs when the effect is set up and whenever a scheduled callback is due
FrameDue == (nFrames = 0 /\ ~tornDown) \/ rafPending > 0

\* every interleaving of a few frames and host operations
Next ==
  \/ FrameDue /\ nFrames < MaxFrames /\ loop
  \/ Mounted /\ nOps < MaxOps /\ handleInject
  \/ Mounted /\ nOps < MaxOps /\ handleReset
  \/ Mounted /\ nOps < MaxOps
       /\ \E newParams \in PartialInputs : handleParamChange(newParams)
  \/ Mounted /\ teardown
  \/ applyUpdates

Spec == Init /\ [][Next]_vars

\* the rendering layer as the specification has it (5 and 6): it reads the
\* interfaces between frames, once per host frame tick, so the history a frame
\* publishes is rendered before the next host operation is handled.  The root
\* that schedules React's renders is not part of src/
FrameRendered == pending = <<>>

NextTick ==
  \/ FrameDue /\ nFrames < MaxFrames /\ loop
  \/ Mounted /\ FrameRendered /\ nOps < MaxOps /\ handleInject
  \/ Mounted /\ FrameRendered /\ nOps < MaxOps /\ handleReset
  \/ Mounted /\ FrameRendered /\ nOps < MaxOps
       /\ \E newParams \in PartialInputs : handleParamChange(newParams)
  \/ Mounted /\ teardown
  \/ applyUpdates

SpecTick == Init /\ [][NextTick]_vars

\* a host that issues several operations in one batch: React applies their
\* updates together, and no frame runs while a batch is open.  The ControlPanel
\* of src/ calls one handler per DOM event and React renders at the end of each
\* event, so the App of src/ gets no such batch: Spec has every run it has
NextQueued ==
  \/ FrameDue /\ nFrames < MaxQueuedFrames /\ ~BatchOpen /\ loop
  \/ Mounted /\ nOps < MaxQueuedOps
       /\ \E newParams \in PartialInputs : handleParamChangeQueued(newParams)
  \/ Mounted /\ nOps < MaxQueuedOps /\ handleResetQueued
  \/ applyUpdates

SpecQueued == Init /\ [][NextQueued]_vars

\* one pulse, injected within the first frames and run past its end, with at
\* most one other host operation (a reset or a change of I_ext), issued while the
\* pulse is young or around its end
InPulseWindow ==
  nFrames <= PulseLead + PulseWindow \/ nFrames >= PulseFrames - PulseWindow

NextPulse ==
  \/ FrameDue /\ nFrames < PulseLead + PulseFrames + PulseTail /\ loop
  \/ Mounted /\ nFrames <= PulseLead /\ nInject = 0 /\ handleInject
  \/ Mounted /\ nOps = nInject /\ InPulseWindow /\ handleReset
  \/ Mounted /\ nOps = nInject /\ InPulseWindow
       /\ \E newParams \in {np \in PartialInputs : "I_ext" \in DOMAIN np} :
            handleParamChange(newParams)
  \/ applyUpdates

SpecPulse == Init /\ [][NextPulse]_vars

\* runs longer than the history capacity, with at most one host operation,
\* issued in the first frames or once the buffer is about to fill
InLongWindow == nFrames <= LongWindow \/ nFrames >= HISTORY_LENGTH - LongWindow

NextLong ==
  \/ FrameDue /\ nFrames < HISTORY_LENGTH + LongOverrun /\ loop
  \/ Mounted /\ nOps = 0 /\ InLongWindow /\ handleInject
  \/ Mounted /\ nOps = 0 /\ InLongWindow /\ handleReset
  \/ Mounted /\ nOps = 0 /\ InLongWindow
       /\ \E newParams \in PartialInputs : handleParamChange(newParams)
  \/ applyUpdates

SpecLong == Init /\ [][NextLong]_vars

\* the App with the preset selection of the specification: every interleaving
\* of a few frames and host operations
NextPreset ==
  \/ FrameDue /\ nFrames < MaxFrames /\ loop
  \/ Mounted /\ nOps < MaxOps /\ handleInject
  \/ Mounted /\ nOps < MaxOps /\ resetSelected
  \/ Mounted /\ nOps < MaxOps
       /\ \E newParams \in PartialInputs : handleParamChange(newParams)
  \/ Mounted /\ nOps < MaxOps /\ \E name \in SimulationMode : selectPreset(name)
  \/ applyUpdates

SpecPreset == Init /\ [][NextPreset]_vars

(***************************************************************************)
(* solveHH on its own: step is applied to a state drawn from StepStates,   *)
(* under parameters that handleParamChange has taken without validating    *)
(* them (nFrames counts the calls of step)                                 *)
(***************************************************************************)
InitStep ==
  /\ stateRef \in StepStates
  /\ paramsRef = BIOLOGICAL_PARAMS
  /\ params = BIOLOGICAL_PARAMS
  /\ pulseRef = F64Zero
  /\ simHistory = <<>>
  /\ historyBuffer = <<>>
  /\ lastOp = "init"
  /\ pre = [state |-> stateRef, paramsRef |-> BIOLOGICAL_PARAMS,
            params |-> BIOLOGICAL_PARAMS, pulse |-> F64Zero, nView |-> 0,
            nBuffer |-> 0, op |-> "init", pending |-> <<>>,
            through |-> "init"]
  /\ lastFrame = NoFrame
  /\ sinceReset = -1
  /\ sinceInject = -1
  /\ boosted = 0
  /\ pulseAtReset = F64Zero
  /\ nFrames = 0
  /\ nOps = 0
  /\ nInject = 0
  /\ lastPartial = <<>>
  /\ rafPending = 0
  /\ tornDown = FALSE
  /\ mode = "BIOLOGICAL"
  /\ viewShared = FALSE
  /\ handed = [then |-> <<>>, now |-> <<>>]
  /\ pending = <<>>

\* stateRef.current = solveHH(stateRef.current, { ...paramsRef.current }, DT)
step ==
  /\ stateRef' = solveHH(stateRef, paramsRef, DT)
  /\ lastOp' = "step"
  /\ pre' = Snapshot
  /\ nFrames' = nFrames + 1
  /\ UNCHANGED <<paramsRef, params, pulseRef, simHistory, historyBuffer,
                 lastFrame, sinceReset, sinceInject, boosted, pulseAtReset,
                 nOps, nInject, lastPartial, rafPending, tornDown,
                 mode,
                 viewShared, handed, pending>>

NextStep ==
  \/ nFrames < MaxSteps /\ step
  \/ nOps < MaxStepOps
       /\ \E newParams \in UnvalidatedInputs : handleParamChange(newParams)
  \/ nOps < MaxStepOps /\ handleReset

SpecStep == InitStep /\ [][NextStep]_vars

(***************************************************************************)
(* The rate functions on their own: step is applied to states whose V is   *)
(* drawn from RateInputs, under the baseline parameters                    *)
(***************************************************************************)
InitRate ==
  /\ stateRef \in RateStates
  /\ paramsRef = BIOLOGICAL_PARAMS
  /\ params = BIOLOGICAL_PARAMS
  /\ pulseRef = F64Zero
  /\ simHistory = <<>>
  /\ historyBuffer = <<>>
  /\ lastOp = "init"
  /\ pre = [state |-> stateRef, paramsRef |-> BIOLOGICAL_PARAMS,
            params |-> BIOLOGICAL_PARAMS, pulse |-> F64Zero, nView |-> 0,
            nBuffer |-> 0, op |-> "init", pending |-> <<>>,
            through |-> "init"]
  /\ lastFrame = NoFrame
  /\ sinceReset = -1
  /\ sinceInject = -1
  /\ boosted = 0
  /\ pulseAtReset = F64Zero
  /\ nFrames = 0
  /\ nOps = 0
  /\ nInject = 0
  /\ lastPartial = <<>>
  /\ rafPending = 0
  /\ tornDown = FALSE
  /\ mode = "BIOLOGICAL"
  /\ viewShared = FALSE
  /\ handed = [then |-> <<>>, now |-> <<>>]
  /\ pending = <<>>

NextRate == nFrames < MaxRateSteps /\ step

SpecRate == InitRate /\ [][NextRate]_vars

(***************************************************************************)
(* Properties                                                              *)
(***************************************************************************)
Min(a, b) == IF a < b THEN a ELSE b

\* the last frame applied no bonus: every currentI was the I_ext of the
\* parameters the frame read
NoBonusInLastFrame ==
  \A i \in DOMAIN lastFrame.currentI :
    lastFrame.currentI[i] = lastFrame.params.I_ext

\* the steady state at V = -65 mV, written out
RestingState ==
  LET V == Fix(-65)
  IN  [V |-> V,
       m |-> DivGate(alpha_m(V), alpha_m(V) + beta_m(V)),
       h |-> DivGate(alpha_h(V), alpha_h(V) + beta_h(V)),
       n |-> DivGate(alpha_n(V), alpha_n(V) + beta_n(V)),
       t |-> F64Zero]

\* C1: right after reset() the live state is the initial state (V = -65, t = 0,
\* m, h, n at equilibrium) and the published history is empty, whatever ran
\* before; a second reset() right after the first changes nothing.
ResetIdempotent ==
  /\ lastOp = "reset" =>
       /\ stateRef = RestingState
       /\ simHistory = <<>>
  /\ lastOp = "reset" /\ pre.through = "reset" =>
       /\ stateRef = pre.state
       /\ paramsRef = pre.paramsRef
       /\ params = pre.params
       /\ pulseRef = pre.pulse
       /\ Len(simHistory) = pre.nView
       /\ Len(historyBuffer) = pre.nBuffer

\* C1 witness: a reset() issued after frames ran under a pulse and left a
\* moved state and a non-empty published history
ResetAfterActivity ==
  /\ lastOp = "reset"
  /\ pre.state # RestingState
  /\ pre.nView > 0
  /\ F64Positive(pre.pulse)

\* C2 (as claimed): k frames after a reset() (1 <= k <= capacity) the published
\* history has exactly k entries, none of them later in simulation time than
\* the live state, i.e. none taken before the reset.
ResetClearsHistoryBuffer ==
  (sinceReset >= 1 /\ sinceReset <= HISTORY_LENGTH) =>
     /\ Len(simHistory) = sinceReset
     /\ \A i \in DOMAIN simHistory : ~F64Less(stateRef.t, simHistory[i].t)

\* C3: the published history and the loop's buffer never hold more than
\* HISTORY_LENGTH entries.
HistoryBounded ==
  /\ Len(simHistory) <= HISTORY_LENGTH
  /\ Len(historyBuffer) <= HISTORY_LENGTH

\* C3 witness: more frames than the capacity have run and the published
\* history is full
HistoryFullAfterOverrun ==
  /\ nFrames > HISTORY_LENGTH
  /\ Len(simHistory) = HISTORY_LENGTH
  /\ Len(historyBuffer) = HISTORY_LENGTH

\* C4 (as claimed): the published history is in chronological order, strictly
\* increasing in t, in every reachable state.
HistoryChronological ==
  \A i \in 1..(Len(simHistory) - 1) :
    F64Less(simHistory[i].t, simHistory[i + 1].t)

\* C5: once 400 sub-steps have run since the last injectPulse(), the sub-steps
\* that follow are integrated with the plain I_ext, without the bonus.
PulseDecays ==
  sinceInject > PulseSubSteps => NoBonusInLastFrame

\* C5 witness: a frame ran wholly after the 400 sub-steps of a pulse, all 400
\* of which had received the bonus
PulseRanOut ==
  /\ lastOp = "frame"
  /\ sinceInject > PulseSubSteps
  /\ boosted = PulseSubSteps

\* C6: in every sub-step the current is I_ext + 20 if the countdown was positive
\* at its start and I_ext otherwise, and the countdown loses dt in exactly the
\* sub-steps where it was positive; the sub-step whose decrement ends the
\* countdown still has the bonus, so a pulse that is not interrupted boosts
\* exactly the first 400 sub-steps after injectPulse().
SubStepPulseRule ==
  /\ \A i \in DOMAIN lastFrame.currentI :
       LET before == lastFrame.pulse[i]
           after  == lastFrame.pulse[i + 1]
       IN  IF F64Positive(before)
           THEN /\ lastFrame.currentI[i] = lastFrame.params.I_ext + Fix(PulseBonus)
                /\ after = F64Sub(before, DT.f64)
           ELSE /\ lastFrame.currentI[i] = lastFrame.params.I_ext
                /\ after = before
  /\ sinceInject >= 0 => boosted = Min(sinceInject, PulseSubSteps)

\* C6 witness: the frame in which a pulse ended: its last boosted sub-step took
\* the countdown from positive to not positive, after 400 boosted sub-steps
PulseEndsInFrame ==
  /\ lastOp = "frame"
  /\ boosted = PulseSubSteps
  /\ \E i \in DOMAIN lastFrame.currentI :
       /\ F64Positive(lastFrame.pulse[i])
       /\ ~F64Positive(lastFrame.pulse[i + 1])
       /\ lastFrame.currentI[i] = lastFrame.params.I_ext + Fix(PulseBonus)

\* C7: injectPulse() sets the countdown to exactly 20 ms whatever it was; a
\* second injectPulse() right after the first changes nothing; the bonus of a
\* sub-step is 0 or 20, never more.
InjectOverwrites ==
  /\ lastOp = "inject" => pulseRef = F64Int(20)
  /\ lastOp = "inject" /\ pre.through = "inject" =>
       /\ pulseRef = pre.pulse
       /\ stateRef = pre.state
       /\ paramsRef = pre.paramsRef
       /\ params = pre.params
       /\ Len(simHistory) = pre.nView
       /\ Len(historyBuffer) = pre.nBuffer
  /\ \A i \in DOMAIN lastFrame.currentI :
       lastFrame.currentI[i] - lastFrame.params.I_ext \in {0, Fix(20)}

\* C7 witness: injectPulse() issued while an earlier pulse had a positive
\* remainder below 20 ms
InjectOverActivePulse ==
  /\ lastOp = "inject"
  /\ F64Positive(pre.pulse)
  /\ F64Less(pre.pulse, F64Int(20))

\* C8: a frame that starts with the countdown at or below 0 leaves it unchanged
\* and applies no bonus; the countdown is always within (-dt, 20].
PulseNeverRearms ==
  /\ lastOp = "frame" /\ ~F64Positive(pre.pulse) =>
       /\ pulseRef = pre.pulse
       /\ NoBonusInLastFrame
  /\ F64Less(F64Sub(F64Zero, DT.f64), pulseRef)
  /\ ~F64Less(F64Int(20), pulseRef)

\* C8 witness: a frame ran on the countdown a finished pulse left behind (in
\* binary64, 20 - 400 * 0.05 ends just below 0)
FrameOnExpiredPulse ==
  /\ lastOp = "frame"
  /\ boosted = PulseSubSteps
  /\ pre.pulse.neg
  /\ pulseRef = pre.pulse

\* C9: reset() leaves the countdown at 0, and the frames after a reset() that no
\* injectPulse() has followed apply no bonus.
ResetCancelsPulse ==
  /\ lastOp = "reset" => pulseRef = F64Zero
  /\ sinceReset >= 1 /\ sinceInject = -1 => NoBonusInLastFrame

\* C9 witness: a frame ran after a reset() that had found the countdown positive
FrameAfterCancelledPulse ==
  /\ lastOp = "frame"
  /\ sinceReset >= 1
  /\ sinceInject = -1
  /\ F64Positive(pulseAtReset)

\* C10: after reset() the parameters the loop reads and the parameters shown by
\* the UI are the baseline preset, and a frame that follows reads them.
ResetRestoresParams ==
  LET baseline == [Cm |-> Fix(1), E_Na |-> Fix(50), E_K |-> Fix(-77),
                   E_L |-> Dec(-544, 10), g_Na |-> Fix(120), g_K |-> Fix(36),
                   g_L |-> Dec(3, 10), I_ext |-> 0]
  IN  /\ lastOp = "reset" => paramsRef = baseline /\ params = baseline
      /\ lastOp = "frame" /\ pre.through = "reset" => lastFrame.params = baseline

\* C10 witness: reset() issued after updateParameters had moved both copies of
\* the parameters away from the baseline
ResetAfterParamChange ==
  /\ lastOp = "reset"
  /\ pre.paramsRef # BIOLOGICAL_PARAMS
  /\ pre.params # BIOLOGICAL_PARAMS

\* sub-steps run since the start or, if there was one, since the last reset()
StepsSinceStart ==
  STEPS_PER_FRAME * (IF sinceReset >= 0 THEN sinceReset ELSE nFrames)

\* t after n sub-steps from t = 0: n binary64 additions of dt
RECURSIVE TimeAfter(_)
TimeAfter(n) == IF n = 0 THEN F64Zero ELSE F64Add(TimeAfter(n - 1), DT.f64)

\* the values of t at the end of whole frames
FrameTimes == {TimeAfter(STEPS_PER_FRAME * k) : k \in 0..nFrames}

\* C11: after updateParameters(partial) every field of the partial has the
\* supplied value and every other field the value it had before, in the
\* parameters shown by the UI and in those the loop reads; the frame that
\* follows integrates its first sub-step (and the others) with the merged set.
ParamsMerged ==
  /\ lastOp = "update" =>
       /\ \A f \in ParamFields :
            params[f] = IF f \in DOMAIN lastPartial THEN lastPartial[f]
                        ELSE pre.params[f]
       /\ paramsRef = params
  /\ lastOp = "frame" /\ pre.through = "update" =>
       /\ lastFrame.params = pre.params
       /\ \A f \in DOMAIN lastPartial : lastFrame.params[f] = lastPartial[f]
       /\ lastFrame.currentI[1] - lastFrame.params.I_ext \in {0, Fix(PulseBonus)}

\* C11 witness: a frame ran right after a second updateParameters, whose
\* partial left a field at the value the first one had given it
FrameAfterSecondUpdate ==
  /\ lastOp = "frame"
  /\ pre.op = "update"
  /\ \E f \in ParamFields \ DOMAIN lastPartial :
       lastFrame.params[f] # BIOLOGICAL_PARAMS[f]
  /\ \E f \in DOMAIN lastPartial : lastPartial[f] < 0

\* C12: the live state and every history entry are states at the end of a
\* whole frame (t is the time after a multiple of STEPS_PER_FRAME sub-steps),
\* and a frame runs its sub-steps on the parameters and the countdown that
\* the host operations had left before it started.
FrameAtomic ==
  /\ stateRef.t \in FrameTimes
  /\ \A i \in DOMAIN simHistory : simHistory[i].t \in FrameTimes
  /\ \A i \in DOMAIN historyBuffer : historyBuffer[i].t \in FrameTimes
  /\ lastOp = "frame" =>
       /\ Len(lastFrame.currentI) = STEPS_PER_FRAME
       /\ lastFrame.params = pre.paramsRef
       /\ lastFrame.pulse[1] = pre.pulse
       /\ lastFrame.pulse[STEPS_PER_FRAME + 1] = pulseRef

\* C12 witness: host operations were issued between frames and the history
\* holds several frames
FramesAroundOperations ==
  /\ lastOp = "frame"
  /\ pre.op \in {"inject", "update", "reset"}
  /\ pre.nView + pre.nBuffer >= 2
  /\ Len(simHistory) >= 2

\* the state after integrating the currents in order, each sub-step on the
\* state the one before produced
RECURSIVE StepChain(_, _, _, _)
StepChain(state, p, currents, i) ==
  IF i > Len(currents) THEN state
  ELSE StepChain(solveHH(state, [p EXCEPT !.I_ext = currents[i]], DT),
                 p, currents, i + 1)

\* C13: the state at the end of a frame is step applied STEPS_PER_FRAME times
\* in a chain to the state at its start, with the frame's parameters and the
\* effective current of each sub-step.
SubStepsSequential ==
  lastOp = "frame" =>
    /\ Len(lastFrame.currentI) = STEPS_PER_FRAME
    /\ stateRef = StepChain(pre.state, pre.paramsRef, lastFrame.currentI, 1)

\* C13 witness: a frame that moved V, under a pulse and changed parameters
ChainedFrameUnderPulse ==
  /\ lastOp = "frame"
  /\ pre.paramsRef # BIOLOGICAL_PARAMS
  /\ F64Positive(pre.pulse)
  /\ Abs(stateRef.V - pre.state.V) > FixOne

\* n * x, exactly, for a magnitude x and a small natural n
MagTimes(x, n) ==
  LET c == x[3] * n
      b == x[2] * n + (c \div Limb)
  IN  << x[1] * n + (b \div Limb), b % Limb, c % Limb >>

\* |x - y| for magnitudes
MagDist(x, y) == IF MagLess(x, y) THEN MagSub(y, x) ELSE MagSub(x, y)

\* the unit in the last place of a binary64 value, in units of 2^-57
Ulp(x) == LET s == BitLen(x.mag[1]) - 11 IN IF s <= 0 THEN 1 ELSE 2^s

\* n * dt as JavaScript computes it: the exact product rounded to binary64
TimesDT(n) == F64Norm(FALSE, MagRound(MagTimes(DT.f64.mag, n)))

\* C14 (as claimed): after n sub-steps from the initial state t == n * dt.
TimeExact ==
  stateRef.t = TimesDT(StepsSinceStart)

\* C14 (amended): a step sets t to the binary64 sum t + dt and nothing else
\* changes t, so after n sub-steps t is the n-fold binary64 sum of dt, which
\* is within n units in the last place of n * dt; a frame adds dt five times
\* and strictly increases t; reset() sets t to 0 and no other operation
\* changes it.
TimeBookkeeping ==
  /\ stateRef.t = TimeAfter(StepsSinceStart)
  /\ ~MagLess(<<0, 0, StepsSinceStart * Ulp(stateRef.t)>>,
              MagDist(stateRef.t.mag, MagTimes(DT.f64.mag, StepsSinceStart)))
  /\ lastOp = "frame" =>
       /\ stateRef.t = F64Add(F64Add(F64Add(F64Add(F64Add(pre.state.t,
                          DT.f64), DT.f64), DT.f64), DT.f64), DT.f64)
       /\ F64Less(pre.state.t, stateRef.t)
  /\ lastOp = "reset" => stateRef.t = F64Zero
  /\ lastOp \in {"inject", "update", "teardown"} => stateRef.t = pre.state.t

\* C14 witness: after a frame t is not the binary64 product n * dt, and a
\* reset has restarted the count
TimeOffProduct ==
  /\ lastOp = "frame"
  /\ sinceReset >= 2
  /\ stateRef.t # TimesDT(StepsSinceStart)

\* C16: a frame leaves every snapshot taken earlier as it was (the entries of
\* the buffer keep their V, m, h, n, t; at most the oldest one is evicted) and
\* leaves both parameter records as they were; the host operations change no
\* snapshot either.
SnapshotsKept ==
  [][ /\ lastOp' = "frame" =>
           LET evicted == Len(historyBuffer) + 1 - Len(historyBuffer')
           IN  /\ evicted \in {0, 1}
               /\ \A i \in 1..(Len(historyBuffer') - 1) :
                    historyBuffer'[i] = historyBuffer[i + evicted]
               /\ paramsRef' = paramsRef
               /\ params' = params
      /\ lastOp' # "frame" => historyBuffer' = historyBuffer
    ]_vars

\* C16 witness: a frame under a pulse pushed onto a full buffer, whose oldest
\* entry was evicted and whose other entries differ from the new state
FramePushedOnFullBuffer ==
  /\ lastOp = "frame"
  /\ pre.nBuffer = HISTORY_LENGTH
  /\ Len(historyBuffer) = HISTORY_LENGTH
  /\ historyBuffer[HISTORY_LENGTH - 1] # historyBuffer[HISTORY_LENGTH]
  /\ historyBuffer[1].V # historyBuffer[HISTORY_LENGTH].V

\* C20: at most one callback of loop is scheduled; a frame that completes
\* while the loop is not torn down leaves exactly one scheduled; once the
\* loop is torn down nothing is scheduled, no operation runs any more, and
\* the state, the countdown and the history are what the teardown found.
TeardownStops ==
  /\ rafPending \in {0, 1}
  /\ lastOp = "frame" /\ ~tornDown => rafPending = 1
  /\ tornDown =>
       /\ rafPending = 0
       /\ lastOp = "teardown"
       /\ stateRef = pre.state
       /\ pulseRef = pre.pulse
       /\ Len(simHistory) = pre.nView
       /\ Len(historyBuffer) = pre.nBuffer

\* C20 witness: the loop was torn down after frames had run, with a pulse
\* active and a callback scheduled
TornDownWhileRunning ==
  /\ tornDown
  /\ pre.op = "frame"
  /\ nFrames >= 2
  /\ nFrames < MaxFrames
  /\ F64Positive(pre.pulse)

\* the derivatives of solveHH, written out on a state s and parameters p
GateDerivative(alpha, beta, g) ==
  Sub(MulGate(alpha, Sub(GateOne, g)), MulGate(beta, g))
SodiumCurrent(s, p) == SodiumProduct(p.g_Na, s.m, s.h, Sub(s.V, p.E_Na))
PotassiumCurrent(s, p) == PotassiumProduct(p.g_K, s.n, Sub(s.V, p.E_K))
LeakCurrent(s, p) == MulFix(p.g_L, Sub(s.V, p.E_L))
VoltageDerivative(s, p) ==
  DivFix(Sub(p.I_ext, Add(Add(SodiumCurrent(s, p), PotassiumCurrent(s, p)),
                          LeakCurrent(s, p))), p.Cm)

\* C15: step is explicit Euler: the new m, h, n come from the rate functions at
\* the old V, the new V from the old m, h, n, and each of V, m, h, n advances by
\* its derivative times dt, with dV = (I_ext - (I_Na + I_K + I_L)) / Cm
ExplicitEuler ==
  lastOp = "step" =>
    LET s == pre.state
        p == pre.paramsRef
    IN  /\ stateRef.V = Add(s.V, Scale(VoltageDerivative(s, p), DT.num, DT.den))
        /\ stateRef.m = Add(s.m, ScaleToGate(
                 GateDerivative(alpha_m(s.V), beta_m(s.V), s.m), DT.num, DT.den))
        /\ stateRef.h = Add(s.h, ScaleToGate(
                 GateDerivative(alpha_h(s.V), beta_h(s.V), s.h), DT.num, DT.den))
        /\ stateRef.n = Add(s.n, ScaleToGate(
                 GateDerivative(alpha_n(s.V), beta_n(s.V), s.n), DT.num, DT.den))

\* C15 witness: a step has moved V by more than 1 mV, so that the rate functions
\* at the old V and at the new V differ, and every gating variable has moved
SteppedAcrossRates ==
  /\ lastOp = "step"
  /\ Finite(stateRef.V) /\ Finite(pre.state.V)
  /\ Abs(stateRef.V - pre.state.V) > FixOne
  /\ alpha_m(stateRef.V) # alpha_m(pre.state.V)
  /\ stateRef.m # pre.state.m
  /\ stateRef.h # pre.state.h
  /\ stateRef.n # pre.state.n

StateFields == {"V", "m", "h", "n", "t"}
Gates == {"m", "h", "n"}

\* C18: nothing is validated or clamped: updateParameters stores the values it is
\* given, whatever they are; step returns a state with all its fields for every
\* state and parameters (Cm = 0 and negative conductances included); a gating
\* variable moves by dt times its derivative also when that leaves [0, 1]; a
\* non-finite V, m, h or n stays non-finite in every step, and only reset() puts
\* the finite initial state in its place
NothingValidated ==
  /\ lastOp = "reset" => \A c \in {"V"} \cup Gates : Finite(stateRef[c])
  /\ lastOp = "update" =>
       \A f \in DOMAIN lastPartial : /\ params[f] = lastPartial[f]
                                     /\ paramsRef[f] = lastPartial[f]
  /\ lastOp = "step" =>
       /\ DOMAIN stateRef = StateFields
       /\ \A c \in {"V"} \cup Gates :
            /\ stateRef[c] \in Int
            /\ ~Finite(pre.state[c]) => ~Finite(stateRef[c])
       /\ LET s == pre.state
              rate == [g \in Gates |->
                        IF g = "m" THEN <<alpha_m(s.V), beta_m(s.V)>>
                        ELSE IF g = "h" THEN <<alpha_h(s.V), beta_h(s.V)>>
                        ELSE <<alpha_n(s.V), beta_n(s.V)>>]
          IN  \A g \in Gates :
                LET inc == ScaleToGate(GateDerivative(rate[g][1], rate[g][2], s[g]),
                                       DT.num, DT.den)
                IN  (Finite(s[g]) /\ Finite(inc) /\ (s[g] + inc < 0 \/ s[g] + inc > GateOne))
                      => stateRef[g] = s[g] + inc

\* C18 witness: under Cm = 0 a step has carried a non-finite V on, with a gating
\* variable not finite either
NonFiniteCarried ==
  /\ lastOp = "step"
  /\ pre.paramsRef.Cm = 0
  /\ ~Finite(pre.state.V)
  /\ ~Finite(stateRef.V)
  /\ \E g \in Gates : ~Finite(stateRef[g])

\* C19: selectPreset(name) replaces the active parameters with the values of the
\* named preset and leaves the running state, the pulse countdown and the
\* history as they are; a later reset() restores the parameters of the preset
\* that is selected then
PresetDecoupled ==
  /\ lastOp = "preset" =>
       /\ params = PresetParams(mode)
       /\ paramsRef = PresetParams(mode)
       /\ stateRef = pre.state
       /\ pulseRef = pre.pulse
       /\ Len(simHistory) = pre.nView
       /\ Len(historyBuffer) = pre.nBuffer
  /\ lastOp = "reset" =>
       /\ params = PresetParams(mode)
       /\ paramsRef = PresetParams(mode)

\* C19 witness: the high-excitability preset was selected while the neuron was
\* running under a pulse, with a history, and is in force
PresetSelectedWhileRunning ==
  /\ lastOp = "preset"
  /\ mode = "CYBERNETIC"
  /\ params # pre.params
  /\ stateRef # getInitialState
  /\ F64Positive(pulseRef)
  /\ Len(simHistory) >= 2

\* C21: alpha_n is exactly 0.1 where |(V + 65) - 10| < 1e-6, in particular at
\* V = -55, and alpha_m exactly 1 where |(V + 65) - 25| < 1e-6, in particular at
\* V = -40; for every finite V both are finite (no division by zero, no NaN),
\* and so are the gating variables a step from such a V returns
SingularityHandled ==
  LET V == stateRef.V
  IN  /\ alpha_n(Fix(-55)) = Dec(1, 10)
      /\ alpha_m(Fix(-40)) = Fix(1)
      /\ NearZero(Sub(Add(V, Fix(65)), Fix(10))) => alpha_n(V) = Dec(1, 10)
      /\ NearZero(Sub(Add(V, Fix(65)), Fix(25))) => alpha_m(V) = Fix(1)
      /\ Finite(V) => Finite(alpha_n(V)) /\ Finite(alpha_m(V))
      /\ lastOp = "step" /\ Finite(pre.state.V) =>
           \A g \in Gates : Finite(stateRef[g])

\* C21 witness: a step was taken from V = -55 exactly, where the quotient of
\* alpha_n is 0 / 0, and n has moved to a finite value
SteppedFromSingularity ==
  /\ lastOp = "step"
  /\ pre.state.V = Fix(-55)
  /\ RateQuotient(Sub(Fix(10), Add(pre.state.V, Fix(65)))) = NaN
  /\ Finite(stateRef.n)
  /\ stateRef.n # pre.state.n

\* C22: one step from the initial state under the baseline parameters (I_ext = 0,
\* no pulse) moves V by less than 1e-3 mV and leaves m, h and n at their
\* equilibrium values alpha / (alpha + beta) at V = -65
RestIsNearFixedPoint ==
  (lastOp = "step" /\ pre.state = getInitialState
                   /\ pre.paramsRef = BIOLOGICAL_PARAMS) =>
    /\ Abs(stateRef.V - pre.state.V) < Dec(1, 1000)
    /\ stateRef.m = RestingState.m
    /\ stateRef.h = RestingState.h
    /\ stateRef.n = RestingState.n

\* C22 witness: a step was taken from the initial state under the baseline
\* parameters; the ionic currents do not cancel exactly and V has moved
SteppedFromRest ==
  /\ lastOp = "step"
  /\ pre.state = getInitialState
  /\ pre.paramsRef = BIOLOGICAL_PARAMS
  /\ pre.paramsRef.I_ext = 0
  /\ stateRef.V # pre.state.V
  /\ stateRef.t = DT.f64

\* the snapshots of the frames that ran since the last injectPulse(), as the
\* loop's buffer holds them
PulseTrace ==
  LET k == sinceInject \div STEPS_PER_FRAME
  IN  SubSeq(historyBuffer, Len(historyBuffer) - k + 1, Len(historyBuffer))

\* C23: with the baseline parameters (I_ext = 0) and the neuron at rest, the 400
\* sub-steps after injectPulse() hold a sub-step at which V is above 0 mV and a
\* later one at which V is below -50 mV
ActionPotential ==
  (sinceInject = PulseSubSteps /\ paramsRef = BIOLOGICAL_PARAMS
                               /\ lastPartial = <<>>) =>
    \E i \in DOMAIN PulseTrace :
      /\ PulseTrace[i].V > Fix(0)
      /\ \E j \in DOMAIN PulseTrace : j > i /\ PulseTrace[j].V < Fix(-50)

\* C23 witness: reset() and injectPulse() were issued at the same instant, so the
\* pulse started from the initial state, and its 400 sub-steps have run; the
\* trace rises above 0 mV and ends below -50 mV
PulseFromRestRan ==
  /\ sinceInject = PulseSubSteps
  /\ sinceReset = PulseFrames
  /\ paramsRef = BIOLOGICAL_PARAMS
  /\ lastPartial = <<>>
  /\ Len(PulseTrace) = PulseFrames
  /\ \E i \in DOMAIN PulseTrace : PulseTrace[i].V > Fix(0)

\* the last n elements of a sequence (all of it if it has fewer)
LastEntries(seq, n) ==
  IF Len(seq) <= n THEN seq ELSE SubSeq(seq, Len(seq) - n + 1, Len(seq))

\* C24: a frame appends one snapshot, the state after its last sub-step, and
\* drops the oldest entries beyond the capacity: the buffer after the frame is
\* the last HISTORY_LENGTH elements of the buffer before it followed by the new
\* snapshot; no other operation writes to the buffer; after k frames from the
\* start without a reset its length is min(k, HISTORY_LENGTH)
HistoryAppendEvict ==
  [][ /\ lastOp' = "frame" =>
           /\ historyBuffer' =
                LastEntries(Append(historyBuffer, stateRef'), HISTORY_LENGTH)
           /\ historyBuffer'[Len(historyBuffer')] = stateRef'
      /\ lastOp' # "frame" => historyBuffer' = historyBuffer
      /\ sinceReset' = -1 =>
           Len(historyBuffer') = Min(nFrames', HISTORY_LENGTH)
    ]_vars

\* C24 witness: a run without a reset went beyond the capacity; the last frame
\* found the buffer full, and its snapshot is the newest of HISTORY_LENGTH
\* entries
FrameEvictedOldest ==
  /\ lastOp = "frame"
  /\ sinceReset = -1
  /\ nFrames > HISTORY_LENGTH + 1
  /\ pre.nBuffer = HISTORY_LENGTH
  /\ Len(historyBuffer) = Min(nFrames, HISTORY_LENGTH)
  /\ historyBuffer[HISTORY_LENGTH] = stateRef
  /\ historyBuffer[1].t = TimeAfter(STEPS_PER_FRAME * (nFrames - HISTORY_LENGTH + 1))

\* the queue ends, as far as simHistory goes, with the copy a frame handed to
\* setSimHistory: applying it publishes that copy (the [] of a reset() behind
\* it would publish the empty history instead)
FrameCopyQueued(queue) ==
  \E i \in DOMAIN queue :
    /\ queue[i].hook = "simHistory"
    /\ queue[i].arg # <<>>
    /\ \A j \in DOMAIN queue : j > i => queue[j].hook # "simHistory"

\* a frame's copy was published in the last step: by a frame whose
\* setSimHistory rendered at once, or by React applying the update a frame had
\* queued, whatever was handled between the frame and the render
Published ==
  \/ lastOp = "frame" /\ pending = <<>>
  \/ lastOp = "render" /\ FrameCopyQueued(pre.pending)

\* C25: a history sequence handed to the visualization is never modified in
\* place: the array published is not the array the loop pushes to, and the
\* sequence handed out before the current one is still what it was when it was
\* handed out; frames and reset() publish a new sequence instead
PublishedIsImmutable ==
  /\ ~viewShared
  /\ handed.now = handed.then
  /\ Published /\ pre.nView >= 1 =>
       /\ Len(handed.then) = pre.nView
       /\ simHistory # handed.then

\* C25 witness: a frame pushed onto a full buffer, sliced it and published; the
\* sequence handed out one frame earlier still holds the entry that was evicted
PublishedAfterEviction ==
  /\ Published
  /\ pre.nBuffer = HISTORY_LENGTH
  /\ Len(handed.then) = HISTORY_LENGTH
  /\ handed.now = handed.then
  /\ handed.then[1] # simHistory[1]
  /\ handed.then[2] = simHistory[1]

\* C26: a frame never writes the stored parameters, with or without an active
\* pulse: both parameter records are after the frame what the last
\* updateParameters or reset() left (the baseline set if there was none), and
\* every sub-step's current is the stored I_ext or the stored I_ext + 20, so the
\* bonus never accumulates
FrameKeepsParams ==
  /\ lastOp = "frame" =>
       /\ paramsRef = pre.paramsRef
       /\ params = pre.params
       /\ \A i \in DOMAIN lastFrame.currentI :
            lastFrame.currentI[i] \in
              {paramsRef.I_ext, paramsRef.I_ext + Fix(PulseBonus)}
  /\ lastPartial = <<>> =>
       /\ paramsRef = BIOLOGICAL_PARAMS
       /\ params = BIOLOGICAL_PARAMS

\* C26 witness: the frames of a whole pulse have run and the last one still got
\* the bonus in a sub-step; the stored I_ext is the 0 of the baseline
BonusLeftNoTrace ==
  /\ lastOp = "frame"
  /\ sinceInject = PulseSubSteps
  /\ boosted = PulseSubSteps
  /\ lastFrame.currentI[STEPS_PER_FRAME] = Fix(PulseBonus)
  /\ paramsRef.I_ext = Fix(0)
  /\ params.I_ext = Fix(0)

\* C27: injectPulse() changes the pulse countdown only: the live state, both
\* parameter records, the buffer and the published history are the same before
\* and after; updateParameters() changes the parameters only and leaves the live
\* state, the countdown, the buffer and the published history as they are
HostOpsFrame ==
  [][ /\ lastOp' = "inject" =>
           /\ stateRef' = stateRef
           /\ paramsRef' = paramsRef
           /\ params' = params
           /\ historyBuffer' = historyBuffer
           /\ simHistory' = simHistory
      /\ lastOp' = "update" =>
           /\ stateRef' = stateRef
           /\ pulseRef' = pulseRef
           /\ historyBuffer' = historyBuffer
           /\ simHistory' = simHistory
    ]_vars

\* C27 witness: injectPulse() came between frames of a running neuron whose
\* parameters had been changed; it moved the countdown and nothing else
InjectedWhileRunning ==
  /\ lastOp = "inject"
  /\ pre.op = "frame"
  /\ stateRef = pre.state
  /\ stateRef # getInitialState
  /\ paramsRef = pre.paramsRef
  /\ paramsRef # BIOLOGICAL_PARAMS
  /\ Len(simHistory) >= 2
  /\ pulseRef # pre.pulse

\* the visualization was rendered in this state: by the handler's event, by
\* React applying its queue, or by a frame whose setSimHistory rendered at
\* once; a handler whose setParams React still holds in a batch has not been
\* rendered yet
Rendered ==
  /\ ~BatchOpen
  /\ \/ lastOp \in {"init", "update", "reset", "render"}
     \/ lastOp = "frame" /\ pending = <<>>

FrameGrid(k) == MagTimes(TimesDT(STEPS_PER_FRAME).mag, k)

\* |pulseRef.current - k * STEPS_PER_FRAME * dt|, exactly
PulseOffGrid(k) ==
  IF pulseRef.neg THEN MagAdd(pulseRef.mag, FrameGrid(k))
  ELSE MagDist(pulseRef.mag, FrameGrid(k))

\* 2^-40 ms (below 1e-12 ms) in units of 2^-57
GridTolerance == <<0, 0, 2^17>>

\* every sub-step of the last frame got the bonus, or none did
FrameAllOrNone ==
  CountBoosted(lastFrame.currentI, lastFrame.params) \in {0, Len(lastFrame.currentI)}

\* the countdown as exact arithmetic has it, in units of dt: the 400 that
\* handleInject sets, less one for every sub-step since that took the bonus
\* and decremented it; 0 at the start and from reset()
ExactRemaining == IF sinceInject >= 0 THEN PulseSubSteps - boosted ELSE 0

\* C30: pulse and frames are aligned.  Under exact arithmetic the countdown is,
\* between frames, in [0, 20 ms] and a multiple of STEPS_PER_FRAME * dt (the
\* binary64 number the code stores stays within 1e-12 ms of it); hence within
\* a frame all 5 sub-steps get the bonus or none does, and a pulse that is not
\* interrupted lasts exactly 80 frames.
PulseFrameAligned ==
  /\ ExactRemaining \in 0..PulseSubSteps
  /\ ExactRemaining % STEPS_PER_FRAME = 0
  /\ MagLess(PulseOffGrid(ExactRemaining \div STEPS_PER_FRAME), GridTolerance)
  /\ FrameAllOrNone
  /\ sinceInject >= 0 => boosted = Min(sinceInject, PulseFrames * STEPS_PER_FRAME)

\* C30 witness: the 80th frame of a pulse has just run: its 5 sub-steps all got
\* the bonus, 400 sub-steps did in all, and the countdown is used up
PulseEndedWithFrame ==
  /\ lastOp = "frame"
  /\ sinceInject = PulseFrames * STEPS_PER_FRAME
  /\ boosted = sinceInject
  /\ CountBoosted(lastFrame.currentI, lastFrame.params) = STEPS_PER_FRAME
  /\ ExactRemaining = 0

=============================================================================
